---- MODULE Spec2Model ----
(***************************************************************************)
(* Registry diff engine of darkquasar/purplerepo:                          *)
(*   src/.github/workflows/scripts/detect_repo_changes.py                  *)
(* RepoChangeDetector (find_new_entries, find_removed_entries,             *)
(* detect_action_conflicts, consolidate_entries_by_url, detect_changes)    *)
(* and main.                                                               *)
(*                                                                         *)
(* the script at the repository root, src/detect_repo_changes.py, which    *)
(* has no conflict detection, consolidation or limits,                     *)
(*                                                                         *)
(* and the enrichment worker                                               *)
(*   src/workers/python-github-enrich/src/entry.py (on_fetch).             *)
(*                                                                         *)
(* Specifications, over one set of variables:                              *)
(*   SpecUnit    the methods called directly, the way                      *)
(*               test_detect_changes.py calls them;                        *)
(*   Spec        main -> detect_changes, from the two fetched snapshots    *)
(*               to the exit status and the written outputs;               *)
(*   SpecRuns    detect_changes run twice on the same snapshots;           *)
(*   SpecVersions  detect_changes of the workflow script and of            *)
(*               src/detect_repo_changes.py, the script it grew from, run  *)
(*               on the same snapshots;                                    *)
(*   SpecWorker  on_fetch answering one request after another.             *)
(***************************************************************************)
EXTENDS Integers, Sequences, FiniteSets, TLC

VARIABLES
    \* ---- SpecUnit: one direct call of a method ----
    a,                  \* first argument  (old_entries / new_repos / entries)
    b,                  \* second argument (new_entries / removed_repos)
    yaml_content,       \* argument of parse_yaml_content, None in other calls
    called,             \* the method that has been called, "none" before
    ret,                \* what it returned
    \* ---- Spec: main and the locals of detect_changes ----
    old_content,        \* the file at old_sha, as fetch_file_content sees it
    new_content,        \* the file at new_sha
    enforce_limits,     \* --enforce-limits
    pc,                 \* position in detect_changes / main
    old_entries, new_entries,
    new_repos, removed_repos,
    conflicting_urls,
    consolidated_new_repos, consolidated_removed_repos,
    payloads,           \* return value of detect_changes
    exc,                \* exception raised out of detect_changes
    env,                \* GITHUB_ACTIONS and --output-file, as main read them
    exit_status,        \* process exit status, meaningful when pc = "exited"
    output_file,        \* what main dumped to --output-file, None if not written
    github_output,      \* lines main appended to $GITHUB_OUTPUT
    \* ---- SpecRuns ----
    first_run,          \* how the first run of detect_changes ended, None before
    \* ---- SpecVersions ----
    root_run,           \* how detect_changes of src/detect_repo_changes.py
                        \* ended on the same snapshots, None before
    \* ---- SpecWorker: on_fetch ----
    request,            \* the Request being handled, None before the first
    worker_env,         \* the env binding passed to on_fetch, and os.environ
    wpc,                \* where on_fetch is
    owner_repo,         \* owner, repo = parse_github_url(github_url)
    github_token,       \* the token found in the environment
    calls,              \* the requests sent to api.github.com for this request
    replies,            \* what api.github.com answered to each of them
    repo_data,          \* repo_data = await repo_response.json()
    response,           \* the Response returned, None while handling
    previous            \* the exchange before this one, None in the first

unit_vars == <<a, b, yaml_content, called, ret>>
runs_vars == <<first_run, root_run>>
worker_vars == <<request, worker_env, wpc, owner_repo, github_token, calls,
                 replies, repo_data, response, previous>>
main_vars == <<old_content, new_content, enforce_limits, pc, old_entries,
               new_entries, new_repos, removed_repos, conflicting_urls,
               consolidated_new_repos, consolidated_removed_repos, payloads,
               exc, env, exit_status, output_file, github_output>>
vars == <<unit_vars, main_vars, runs_vars, worker_vars>>

(***************************************************************************)
(* Bounds of the model.                                                    *)
(***************************************************************************)
\* longest list passed as either argument of a two-list method
MaxLen == 3
\* longest list of raw entries in a snapshot built from RawEntries
MaxRepos == 2
\* longest list passed to consolidate_entries_by_url on its own
MaxGroup == 4
\* most distinct changed urls in a snapshot pair of the many-url family
MaxChanges == 17

\* "if total_changes > 15"
ChangeLimit == 15

(***************************************************************************)
(* Values.  Optional[X]: None is <<>>, a present value v is <<v>>.         *)
(***************************************************************************)
None == <<>>
Some(v) == <<v>>

Range(s) == {s[i] : i \in DOMAIN s}
SeqsUpTo(S, n) == UNION {[1..k -> S] : k \in 0..n}

\* Python truthiness of an Optional[List]: neither None nor []
Truthy(opt) == opt # None /\ opt[1] # <<>>

\* dataclass RepoEntry
RepoEntry(url, tags, contributor) ==
    [repo_url |-> url, tags |-> tags, contributor_name |-> contributor]

\* RepoEntry.to_dict: the tags key only when self.tags is truthy
to_dict(self, action) ==
    [repo_url |-> self.repo_url,
     contributor_name |-> self.contributor_name,
     action |-> action,
     tags |-> IF Truthy(self.tags) THEN self.tags ELSE None]

\* list(dict.fromkeys(s)): first occurrences, in order
RECURSIVE dict_fromkeys(_)
dict_fromkeys(s) ==
    IF s = <<>> THEN <<>>
    ELSE LET r == dict_fromkeys(SubSeq(s, 1, Len(s) - 1))
             x == s[Len(s)]
         IN  IF x \in Range(r) THEN r ELSE Append(r, x)

\* sep.join(strs)
RECURSIVE str_join(_, _)
str_join(sep, strs) ==
    IF strs = <<>> THEN ""
    ELSE IF Len(strs) = 1 THEN strs[1]
    ELSE strs[1] \o sep \o str_join(sep, Tail(strs))

(***************************************************************************)
(* RepoChangeDetector                                                      *)
(***************************************************************************)
find_new_entries_swapped(old, new) ==
    LET new_urls == {new[i].repo_url : i \in DOMAIN new}
    IN  SelectSeq(old, LAMBDA entry : entry.repo_url \notin new_urls)

\* keeps one entry per url
find_new_entries_unique(old, new) ==
    LET old_urls == {old[i].repo_url : i \in DOMAIN old}
        kept == SelectSeq([i \in DOMAIN new |-> i],
                          LAMBDA i : /\ new[i].repo_url \notin old_urls
                                     /\ \A j \in 1..(i - 1) :
                                           new[j].repo_url # new[i].repo_url)
    IN  [k \in DOMAIN kept |-> new[kept[k]]]

\* compares whole entries instead of urls
find_new_entries_by_entry(old, new) ==
    SelectSeq(new, LAMBDA entry : entry \notin Range(old))

find_new_entries(old, new) ==
    LET old_urls == {old[i].repo_url : i \in DOMAIN old}
    IN  SelectSeq(new, LAMBDA entry : entry.repo_url \notin old_urls)

find_removed_entries_swapped(old, new) ==
    LET old_urls == {old[i].repo_url : i \in DOMAIN old}
    IN  SelectSeq(new, LAMBDA entry : entry.repo_url \notin old_urls)

find_removed_entries(old, new) ==
    LET new_urls == {new[i].repo_url : i \in DOMAIN new}
    IN  SelectSeq(old, LAMBDA entry : entry.repo_url \notin new_urls)

conflicting_union(new, removed) ==
    {new[i].repo_url : i \in DOMAIN new}
        \cup {removed[i].repo_url : i \in DOMAIN removed}

\* new_urls.intersection(removed_urls)
conflicting(new, removed) ==
    {new[i].repo_url : i \in DOMAIN new}
        \cap {removed[i].repo_url : i \in DOMAIN removed}

detect_action_conflicts_one_sided(new, removed) ==
    LET c == conflicting(new, removed)
    IN  <<SelectSeq(new, LAMBDA entry : entry.repo_url \notin c), removed>>

detect_action_conflicts(new, removed) ==
    LET c == conflicting(new, removed)
    IN  <<SelectSeq(new, LAMBDA entry : entry.repo_url \notin c),
          SelectSeq(removed, LAMBDA entry : entry.repo_url \notin c)>>

\* the keys of url_groups, in insertion order
url_group_keys(entries) ==
    dict_fromkeys([i \in DOMAIN entries |-> entries[i].repo_url])

\* url_groups[repo_url]
url_group(entries, repo_url) ==
    SelectSeq(entries, LAMBDA entry : entry.repo_url = repo_url)

\* all_tags after the loop over the group
RECURSIVE all_tags_of(_)
all_tags_of(group) ==
    IF group = <<>> THEN <<>>
    ELSE (IF Truthy(group[1].tags) THEN group[1].tags[1] ELSE <<>>)
             \o all_tags_of(Tail(group))

merge_contributors_keep_dups(group) ==
    LET named == SelectSeq(group, LAMBDA entry : entry.contributor_name # "")
    IN  str_join(", ", [i \in DOMAIN named |-> named[i].contributor_name])

\* consolidated_contributor
merge_contributors(group) ==
    LET named == SelectSeq(group, LAMBDA entry : entry.contributor_name # "")
        contributors == [i \in DOMAIN named |-> named[i].contributor_name]
    IN  str_join(", ", dict_fromkeys(contributors))

merge_tags_first_only(group) ==
    LET tagged == SelectSeq(group, LAMBDA entry : Truthy(entry.tags))
    IN  IF tagged = <<>> THEN None ELSE Some(dict_fromkeys(tagged[1].tags[1]))

\* unique_tags
merge_tags(group) ==
    LET all_tags == all_tags_of(group)
    IN  IF all_tags # <<>> THEN Some(dict_fromkeys(all_tags)) ELSE None

\* one turn of the loop over url_groups.items()
consolidate_group(repo_url, group) ==
    IF Len(group) = 1 THEN group[1]
    ELSE RepoEntry(repo_url, merge_tags(group), merge_contributors(group))

consolidate_entries_by_url_last_first(entries) ==
    LET keys == url_group_keys(entries)
    IN  [i \in DOMAIN keys |->
            consolidate_group(keys[Len(keys) + 1 - i],
                              url_group(entries, keys[Len(keys) + 1 - i]))]

consolidate_entries_by_url_no_grouping(entries) ==
    entries

consolidate_entries_by_url(entries) ==
    LET keys == url_group_keys(entries)
    IN  [i \in DOMAIN keys |->
            consolidate_group(keys[i], url_group(entries, keys[i]))]

(***************************************************************************)
(* Snapshots.  The content of the file at a commit is None when            *)
(* fetch_file_content fails, else a document: what yaml.safe_load makes    *)
(* of the text:                                                            *)
(*   "invalid"                yaml.safe_load raises YAMLError              *)
(*   "empty"                  an empty document, loaded as None            *)
(*   "not_mapping"            a top-level list                             *)
(*   "repos_not_list"         a mapping whose 'repos' is a number          *)
(*   "repos_of_non_mappings"  a mapping whose 'repos' is a list of strings *)
(*   "ok"                     a mapping with a list of mappings under      *)
(*                            'repos'                                      *)
(* Under 'tags' and 'initial_tags' an entry holds None (no key, or null),  *)
(* Some(list), or NotAList: a number, as in "tags: 5".                     *)
(***************************************************************************)
NotAList == <<<<>>, <<>>>>

RawEntry(url, tags, initial_tags, contributor) ==
    [repo_url |-> url, tags |-> tags, initial_tags |-> initial_tags,
     contributor_name |-> contributor]

Document(yaml, repos) == [yaml |-> yaml, repos |-> repos]

\* repo.get(key, []) or []
or_empty(opt) == IF opt = None THEN <<>> ELSE opt[1]

\* list(set(xs)): the elements once each, in an order the set decides
list_of_set(S) == {s \in [1..Cardinality(S) -> S] : Range(s) = S}

parse_entry_ignores_initial(repo) ==
    LET tags == or_empty(repo.tags)
    IN  IF tags # <<>>
        THEN {RepoEntry(repo.repo_url, Some(all_tags), repo.contributor_name) :
                 all_tags \in list_of_set(Range(tags))}
        ELSE {RepoEntry(repo.repo_url, None, repo.contributor_name)}

\* the RepoEntry built from one raw entry, for every order of its tag set
parse_entry(repo) ==
    LET tags == or_empty(repo.tags)
        initial_tags == or_empty(repo.initial_tags)
    IN  IF tags # <<>> \/ initial_tags # <<>>
        THEN {RepoEntry(repo.repo_url, Some(all_tags), repo.contributor_name) :
                 all_tags \in list_of_set(Range(tags \o initial_tags))}
        ELSE {RepoEntry(repo.repo_url, None, repo.contributor_name)}

RECURSIVE parse_repos(_)
parse_repos(repos) ==
    IF repos = <<>> THEN {<<>>}
    ELSE {Append(es, e) : es \in parse_repos(SubSeq(repos, 1, Len(repos) - 1)),
                          e \in parse_entry(repos[Len(repos)])}

Returned(v) == [exc |-> None, value |-> v]
Raised(type, message) ==
    [exc |-> Some([type |-> type, message |-> message]), value |-> <<>>]

\* data.get('repos', []) and the loop over it, when the document is not a
\* mapping with a list of mappings under 'repos'
malformed_error(yaml) ==
    IF yaml = "empty"
    THEN Raised("AttributeError", "'NoneType' object has no attribute 'get'")
    ELSE IF yaml = "not_mapping"
    THEN Raised("AttributeError", "'list' object has no attribute 'get'")
    ELSE IF yaml = "repos_not_list"
    THEN Raised("TypeError", "'int' object is not iterable")
    ELSE Raised("AttributeError", "'str' object has no attribute 'get'")

\* tags + initial_tags, and set() of the sum, when a number is under a tag key
tags_error(repo) ==
    IF repo.tags = NotAList /\ repo.initial_tags = NotAList
    THEN Raised("TypeError", "'int' object is not iterable")
    ELSE IF repo.tags = NotAList
    THEN Raised("TypeError", "unsupported operand type(s) for +: 'int' and 'list'")
    ELSE Raised("TypeError", "can only concatenate list (not \"int\") to list")

\* parse_yaml_content: the ways the call can end
parse_yaml_content(doc) ==
    LET ill_typed == {i \in DOMAIN doc.repos :
                         NotAList \in {doc.repos[i].tags, doc.repos[i].initial_tags}}
        first == CHOOSE i \in ill_typed : \A j \in ill_typed : i <= j
    IN  IF doc.yaml = "invalid" THEN {Returned(<<>>)}
        ELSE IF doc.yaml # "ok" THEN {malformed_error(doc.yaml)}
        ELSE IF ill_typed # {} THEN {tags_error(doc.repos[first])}
        ELSE {Returned(es) : es \in parse_repos(doc.repos)}

limit_exceeded_at_limit(n_new, n_removed) ==
    n_new + n_removed >= ChangeLimit

limit_exceeded_new_only(n_new, n_removed) ==
    n_new > ChangeLimit

\* total_changes > 15
limit_exceeded(n_new, n_removed) ==
    n_new + n_removed > ChangeLimit

limit_message(total_changes) ==
    "Exceeded maximum change limit: " \o ToString(total_changes) \o " > 15"

to_payloads_removes_first(adds, removes) ==
    [i \in DOMAIN removes |-> to_dict(removes[i], "remove")]
        \o [i \in DOMAIN adds |-> to_dict(adds[i], "add")]

\* payloads: the add records, then the remove records
to_payloads(adds, removes) ==
    [i \in DOMAIN adds |-> to_dict(adds[i], "add")]
        \o [i \in DOMAIN removes |-> to_dict(removes[i], "remove")]

\* one line of $GITHUB_OUTPUT: name=text, or name=json.dumps(json)
OutputLine(name, text, json) == [name |-> name, text |-> text, json |-> json]

(***************************************************************************)
(* src/detect_repo_changes.py, the script at the repository root.  Its     *)
(* RepoEntry keeps initial_tags and tags apart, as the document gives      *)
(* them; find_new_entries and find_removed_entries are the same code as    *)
(* in the workflow script.                                                 *)
(***************************************************************************)
RepoEntry_root(url, initial_tags, tags, contributor) ==
    [repo_url |-> url, initial_tags |-> initial_tags, tags |-> tags,
     contributor_name |-> contributor]

\* truth value of a tag attribute: a non-empty list, or the number
TagTruthy(v) == v = NotAList \/ Truthy(v)

\* to_dict: initial_tags if truthy, else tags if truthy
to_dict_root(self, action) ==
    [repo_url |-> self.repo_url,
     contributor_name |-> self.contributor_name,
     action |-> action,
     initial_tags |-> IF TagTruthy(self.initial_tags) THEN self.initial_tags
                      ELSE None,
     tags |-> IF ~TagTruthy(self.initial_tags) /\ TagTruthy(self.tags)
              THEN self.tags ELSE None]

\* parse_yaml_content: repo.get('initial_tags') and repo.get('tags') as they are
parse_yaml_content_root(doc) ==
    IF doc.yaml = "invalid" THEN Returned(<<>>)
    ELSE IF doc.yaml # "ok" THEN malformed_error(doc.yaml)
    ELSE Returned([i \in DOMAIN doc.repos |->
                      RepoEntry_root(doc.repos[i].repo_url,
                                     doc.repos[i].initial_tags,
                                     doc.repos[i].tags,
                                     doc.repos[i].contributor_name)])

detect_changes_root_removes_only(old_file, new_file) ==
    IF old_file = None \/ new_file = None THEN Returned(<<>>)
    ELSE LET old == parse_yaml_content_root(old_file[1])
             new == parse_yaml_content_root(new_file[1])
         IN  IF old.exc # None THEN old
             ELSE IF new.exc # None THEN new
             ELSE Returned([i \in DOMAIN find_removed_entries(old.value, new.value) |->
                               to_dict_root(find_removed_entries(old.value, new.value)[i],
                                            "remove")])

\* detect_changes: [] when a file is missing, else the add records of the
\* new entries, then the remove records of the removed ones
detect_changes_root(old_file, new_file) ==
    IF old_file = None \/ new_file = None THEN Returned(<<>>)
    ELSE LET old == parse_yaml_content_root(old_file[1])
             new == parse_yaml_content_root(new_file[1])
             added == find_new_entries(old.value, new.value)
             removed == find_removed_entries(old.value, new.value)
         IN  IF old.exc # None THEN old
             ELSE IF new.exc # None THEN new
             ELSE Returned([i \in DOMAIN added |-> to_dict_root(added[i], "add")]
                           \o [i \in DOMAIN removed |->
                                  to_dict_root(removed[i], "remove")])

(***************************************************************************)
(* SpecUnit: the arguments of a direct call.                               *)
(***************************************************************************)
\* entries of the two-list calls: url A twice with different metadata
PairEntries ==
    { RepoEntry("A", None, "a"),
      RepoEntry("A", Some(<<"x">>), "b"),
      RepoEntry("B", None, "a"),
      RepoEntry("C", Some(<<"x">>), "") }

\* entries of the consolidation calls
GroupEntries ==
    { RepoEntry("A", Some(<<"x", "y">>), "a"),
      RepoEntry("A", Some(<<"y", "z">>), "b"),
      RepoEntry("A", None, ""),
      RepoEntry("A", Some(<<>>), "a"),
      RepoEntry("A", None, "b"),
      RepoEntry("B", None, "a"),
      RepoEntry("B", Some(<<"z", "z">>), "b") }

\* raw entries for a direct call of parse_yaml_content: both tag fields,
\* one of them, none, an empty list, a tag given twice
YamlEntries ==
    { RawEntry("A", Some(<<"x">>), Some(<<"y">>), "a"),
      RawEntry("A", Some(<<"y", "x">>), Some(<<"y">>), "b"),
      RawEntry("B", None, None, ""),
      RawEntry("B", Some(<<>>), None, "a"),
      RawEntry("C", None, Some(<<"x", "x">>), "b"),
      RawEntry("C", None, Some(<<>>), "") }

Malformed ==
    {"invalid", "empty", "not_mapping", "repos_not_list",
     "repos_of_non_mappings"}

YamlDocuments ==
    {Document(yaml, <<>>) : yaml \in Malformed}
        \cup {Document("ok", repos) : repos \in SeqsUpTo(YamlEntries, MaxRepos)}

UnitArgs ==
    (SeqsUpTo(PairEntries, MaxLen) \X SeqsUpTo(PairEntries, MaxLen))
        \cup (SeqsUpTo(GroupEntries, MaxGroup) \X {<<>>})

\* the main_vars before main has started
MainIdle ==
    /\ old_content = None /\ new_content = None
    /\ enforce_limits = FALSE
    /\ pc = "idle"
    /\ old_entries = <<>> /\ new_entries = <<>>
    /\ new_repos = <<>> /\ removed_repos = <<>>
    /\ conflicting_urls = {}
    /\ consolidated_new_repos = <<>> /\ consolidated_removed_repos = <<>>
    /\ payloads = <<>>
    /\ exc = None
    /\ env = None
    /\ exit_status = 0
    /\ output_file = None
    /\ github_output = <<>>

UnitIdle ==
    /\ a = <<>> /\ b = <<>> /\ yaml_content = None
    /\ called = "none" /\ ret = <<>>

RunsIdle == first_run = None /\ root_run = None

WorkerIdle ==
    /\ request = None /\ worker_env = None /\ wpc = "idle"
    /\ owner_repo = <<None, None>> /\ github_token = None
    /\ calls = <<>> /\ replies = <<>> /\ repo_data = None
    /\ response = None /\ previous = None

InitUnit ==
    /\ \/ /\ \E args \in UnitArgs : a = args[1] /\ b = args[2]
          /\ yaml_content = None
       \/ /\ a = <<>> /\ b = <<>>
          /\ yaml_content \in {Some(doc) : doc \in YamlDocuments}
    /\ called = "none"
    /\ ret = <<>>
    /\ MainIdle
    /\ RunsIdle
    /\ WorkerIdle

CallFindNewEntries ==
    /\ called = "none"
    /\ yaml_content = None
    /\ ret' = find_new_entries(a, b)
    /\ called' = "find_new_entries"
    /\ UNCHANGED <<a, b, yaml_content, main_vars, runs_vars, worker_vars>>

CallFindRemovedEntries ==
    /\ called = "none"
    /\ yaml_content = None
    /\ ret' = find_removed_entries(a, b)
    /\ called' = "find_removed_entries"
    /\ UNCHANGED <<a, b, yaml_content, main_vars, runs_vars, worker_vars>>

CallDetectActionConflicts ==
    /\ called = "none"
    /\ yaml_content = None
    /\ ret' = detect_action_conflicts(a, b)
    /\ called' = "detect_action_conflicts"
    /\ UNCHANGED <<a, b, yaml_content, main_vars, runs_vars, worker_vars>>

CallConsolidate ==
    /\ called = "none"
    /\ yaml_content = None
    /\ ret' = consolidate_entries_by_url(a)
    /\ called' = "consolidate_entries_by_url"
    /\ UNCHANGED <<a, b, yaml_content, main_vars, runs_vars, worker_vars>>

\* the result of a consolidation passed to consolidate_entries_by_url again
CallConsolidateAgain ==
    /\ called = "consolidate_entries_by_url"
    /\ ret' = consolidate_entries_by_url(ret)
    /\ called' = "consolidate_entries_by_url twice"
    /\ UNCHANGED <<a, b, yaml_content, main_vars, runs_vars, worker_vars>>

\* parse_yaml_content called on a text
CallParseYamlContent ==
    /\ called = "none"
    /\ yaml_content # None
    /\ ret' \in parse_yaml_content(yaml_content[1])
    /\ called' = "parse_yaml_content"
    /\ UNCHANGED <<a, b, yaml_content, main_vars, runs_vars, worker_vars>>

NextUnit ==
    \/ CallParseYamlContent
    \/ CallFindNewEntries
    \/ CallFindRemovedEntries
    \/ CallDetectActionConflicts
    \/ CallConsolidate
    \/ CallConsolidateAgain

SpecUnit == InitUnit /\ [][NextUnit]_vars

(***************************************************************************)
(* Spec: the snapshots main can be run on.                                 *)
(***************************************************************************)
RawEntries ==
    { RawEntry("A", Some(<<"x">>), Some(<<"y">>), "a"),
      RawEntry("A", Some(<<"y">>), Some(<<"y">>), "b"),
      RawEntry("B", None, None, ""),
      RawEntry("C", None, Some(<<"x">>), "b") }

Contents ==
    {None, Some(Document("invalid", <<>>)), Some(Document("empty", <<>>))}
        \cup {Some(Document("ok", repos)) : repos \in SeqsUpTo(RawEntries, MaxRepos)}

\* snapshots with many urls: new holds urls 1..k (the first one twice when
\* dup), old holds urls k+1..n
ManyUrl(i) == "https://github.com/org/repo" \o ToString(i)
ManyRaw(i, contributor) == RawEntry(ManyUrl(i), None, None, contributor)

ManyPair(n, k, dup) ==
    << Some(Document("ok", [i \in 1..(n - k) |-> ManyRaw(k + i, "c")])),
       Some(Document("ok", (IF dup /\ k > 0 THEN <<ManyRaw(1, "d")>> ELSE <<>>)
                               \o [i \in 1..k |-> ManyRaw(i, "c")])) >>

ManyContents ==
    UNION {{ManyPair(n, k, dup) : k \in 0..n, dup \in BOOLEAN} :
              n \in (ChangeLimit - 1)..MaxChanges}

Init ==
    /\ \E c \in (Contents \X Contents) \cup ManyContents :
          old_content = c[1] /\ new_content = c[2]
    /\ enforce_limits \in BOOLEAN
    /\ pc = "fetch"
    /\ old_entries = <<>> /\ new_entries = <<>>
    /\ new_repos = <<>> /\ removed_repos = <<>>
    /\ conflicting_urls = {}
    /\ consolidated_new_repos = <<>> /\ consolidated_removed_repos = <<>>
    /\ payloads = <<>>
    /\ exc = None
    /\ env = None
    /\ exit_status = 0
    /\ output_file = None
    /\ github_output = <<>>
    /\ UnitIdle
    /\ RunsIdle
    /\ WorkerIdle

locals == <<old_entries, new_entries, new_repos, removed_repos, conflicting_urls,
            consolidated_new_repos, consolidated_removed_repos>>
inputs == <<old_content, new_content, enforce_limits>>
outputs == <<env, exit_status, output_file, github_output>>

(***************************************************************************)
(* detect_changes, step by step                                            *)
(***************************************************************************)
\* both fetch_file_content calls; a None content returns []
Fetch ==
    /\ pc = "fetch"
    /\ IF old_content = None \/ new_content = None
       THEN pc' = "returned" /\ payloads' = <<>>
       ELSE pc' = "parse" /\ UNCHANGED payloads
    /\ UNCHANGED <<inputs, locals, exc, outputs, unit_vars,
                   runs_vars, worker_vars>>

\* both parse_yaml_content calls, old first; an exception leaves detect_changes
Parse ==
    /\ pc = "parse"
    /\ \E o \in parse_yaml_content(old_content[1]) :
          IF o.exc # None
          THEN /\ exc' = o.exc /\ pc' = "raised"
               /\ UNCHANGED <<old_entries, new_entries>>
          ELSE \E n \in parse_yaml_content(new_content[1]) :
                  IF n.exc # None
                  THEN /\ exc' = n.exc /\ pc' = "raised"
                       /\ UNCHANGED <<old_entries, new_entries>>
                  ELSE /\ old_entries' = o.value /\ new_entries' = n.value
                       /\ pc' = "diff" /\ UNCHANGED exc
    /\ UNCHANGED <<inputs, new_repos, removed_repos, conflicting_urls,
                   consolidated_new_repos, consolidated_removed_repos,
                   payloads, outputs, unit_vars,
                   runs_vars, worker_vars>>

\* find_new_entries, find_removed_entries and the first "no changes" return
FindEntries ==
    /\ pc = "diff"
    /\ new_repos' = find_new_entries(old_entries, new_entries)
    /\ removed_repos' = find_removed_entries(old_entries, new_entries)
    /\ IF new_repos' = <<>> /\ removed_repos' = <<>>
       THEN pc' = "returned" /\ payloads' = <<>>
       ELSE pc' = "conflicts" /\ UNCHANGED payloads
    /\ UNCHANGED <<inputs, old_entries, new_entries, conflicting_urls,
                   consolidated_new_repos, consolidated_removed_repos,
                   exc, outputs, unit_vars,
                   runs_vars, worker_vars>>

\* new_repos, removed_repos = self.detect_action_conflicts(new_repos, removed_repos)
DetectActionConflicts ==
    /\ pc = "conflicts"
    /\ conflicting_urls' = conflicting(new_repos, removed_repos)
    /\ new_repos' = detect_action_conflicts(new_repos, removed_repos)[1]
    /\ removed_repos' = detect_action_conflicts(new_repos, removed_repos)[2]
    /\ pc' = "consolidate"
    /\ UNCHANGED <<inputs, old_entries, new_entries, consolidated_new_repos,
                   consolidated_removed_repos, payloads, exc, outputs, unit_vars,
                   runs_vars, worker_vars>>

\* both consolidations and the second "no changes" return
Consolidate ==
    /\ pc = "consolidate"
    /\ consolidated_new_repos' = consolidate_entries_by_url(new_repos)
    /\ consolidated_removed_repos' = consolidate_entries_by_url(removed_repos)
    /\ IF consolidated_new_repos' = <<>> /\ consolidated_removed_repos' = <<>>
       THEN pc' = "returned" /\ payloads' = <<>>
       ELSE pc' = "limits" /\ UNCHANGED payloads
    /\ UNCHANGED <<inputs, old_entries, new_entries, new_repos, removed_repos,
                   conflicting_urls, exc, outputs, unit_vars,
                   runs_vars, worker_vars>>

\* if enforce_limits: ... raise ValueError
EnforceLimits ==
    /\ pc = "limits"
    /\ IF /\ enforce_limits
          /\ limit_exceeded(Len(consolidated_new_repos), Len(consolidated_removed_repos))
       THEN /\ exc' = Raised("ValueError",
                             limit_message(Len(consolidated_new_repos)
                                             + Len(consolidated_removed_repos))).exc
            /\ pc' = "raised"
       ELSE pc' = "payloads" /\ UNCHANGED exc
    /\ UNCHANGED <<inputs, locals, payloads, outputs, unit_vars,
                   runs_vars, worker_vars>>

\* the two to_dict loops and return payloads
BuildPayloads ==
    /\ pc = "payloads"
    /\ payloads' = to_payloads(consolidated_new_repos, consolidated_removed_repos)
    /\ pc' = "returned"
    /\ UNCHANGED <<inputs, locals, exc, outputs, unit_vars,
                   runs_vars, worker_vars>>

(***************************************************************************)
(* main, after detect_changes.  GITHUB_ACTIONS and --output-file are read  *)
(* here for the first time, so they are drawn here.                        *)
(***************************************************************************)
Environment(github_actions, output_file_given) ==
    Some([GITHUB_ACTIONS |-> github_actions, output_file |-> output_file_given])

\* except ValueError: sys.exit(1)
MainValidationFailed ==
    /\ pc = "raised" /\ exc[1].type = "ValueError"
    /\ \E g \in BOOLEAN, o \in BOOLEAN : env' = Environment(g, o)
    /\ exit_status' = 1
    /\ pc' = "exited"
    /\ UNCHANGED <<inputs, locals, payloads, exc, output_file, github_output, unit_vars,
                   runs_vars, worker_vars>>

\* any other exception is not caught: traceback, exit status 1
MainUncaught ==
    /\ pc = "raised" /\ exc[1].type # "ValueError"
    /\ \E g \in BOOLEAN, o \in BOOLEAN : env' = Environment(g, o)
    /\ exit_status' = 1
    /\ pc' = "exited"
    /\ UNCHANGED <<inputs, locals, payloads, exc, output_file, github_output, unit_vars,
                   runs_vars, worker_vars>>

\* if not payloads: ... sys.exit(0)
MainNoChanges ==
    /\ pc = "returned" /\ payloads = <<>>
    /\ \E g \in BOOLEAN, o \in BOOLEAN :
          /\ env' = Environment(g, o)
          /\ github_output' =
                IF g THEN <<OutputLine("has_changes", "false", <<>>),
                            OutputLine("payloads_count", "0", <<>>)>>
                ELSE <<>>
    /\ exit_status' = 0
    /\ pc' = "exited"
    /\ UNCHANGED <<inputs, locals, payloads, exc, output_file, unit_vars,
                   runs_vars, worker_vars>>

\* the payloads dumped to --output-file and appended to $GITHUB_OUTPUT
MainOutput ==
    /\ pc = "returned" /\ payloads # <<>>
    /\ \E g \in BOOLEAN, o \in BOOLEAN :
          /\ env' = Environment(g, o)
          /\ output_file' = IF o THEN Some(payloads) ELSE None
          /\ github_output' =
                IF g THEN <<OutputLine("has_changes", "true", <<>>),
                            OutputLine("payloads_count", ToString(Len(payloads)), <<>>),
                            OutputLine("payloads", "", payloads)>>
                ELSE <<>>
    /\ exit_status' = 0
    /\ pc' = "exited"
    /\ UNCHANGED <<inputs, locals, payloads, exc, unit_vars,
                   runs_vars, worker_vars>>

Next ==
    \/ Fetch
    \/ Parse
    \/ FindEntries
    \/ DetectActionConflicts
    \/ Consolidate
    \/ EnforceLimits
    \/ BuildPayloads
    \/ MainValidationFailed
    \/ MainUncaught
    \/ MainNoChanges
    \/ MainOutput

Spec == Init /\ [][Next]_vars

(***************************************************************************)
(* SpecRuns: detect_changes run on the same two snapshots and the same     *)
(* flag a second time, in a process of its own, once the first run has     *)
(* returned or raised.                                                     *)
(***************************************************************************)
\* how a run of detect_changes ended: the exception raised, the list returned
Outcome == [exc |-> exc, payloads |-> payloads]

RunAgain ==
    /\ pc \in {"returned", "raised"}
    /\ first_run = None
    /\ first_run' = Some(Outcome)
    /\ pc' = "fetch"
    /\ old_entries' = <<>> /\ new_entries' = <<>>
    /\ new_repos' = <<>> /\ removed_repos' = <<>>
    /\ conflicting_urls' = {}
    /\ consolidated_new_repos' = <<>> /\ consolidated_removed_repos' = <<>>
    /\ payloads' = <<>>
    /\ exc' = None
    /\ UNCHANGED <<inputs, outputs, root_run, unit_vars, worker_vars>>

NextRuns ==
    \/ Fetch
    \/ Parse
    \/ FindEntries
    \/ DetectActionConflicts
    \/ Consolidate
    \/ EnforceLimits
    \/ BuildPayloads
    \/ RunAgain

SpecRuns == Init /\ [][NextRuns]_vars

(***************************************************************************)
(* SpecVersions: both scripts on the same two snapshots.                   *)
(***************************************************************************)
\* documents in which a tag key holds a number
IllTypedDocuments ==
    { Document("ok", <<RawEntry("A", NotAList, None, "a")>>),
      Document("ok", <<RawEntry("B", None, None, ""),
                       RawEntry("C", Some(<<"x">>), NotAList, "b")>>),
      Document("ok", <<RawEntry("A", NotAList, NotAList, "a")>>) }

VersionContents ==
    (Contents \X Contents) \cup ManyContents
        \cup (Contents \X {Some(doc) : doc \in IllTypedDocuments})
        \cup ({Some(doc) : doc \in IllTypedDocuments} \X Contents)

InitVersions ==
    /\ \E c \in VersionContents : old_content = c[1] /\ new_content = c[2]
    /\ enforce_limits \in BOOLEAN
    /\ pc = "fetch"
    /\ old_entries = <<>> /\ new_entries = <<>>
    /\ new_repos = <<>> /\ removed_repos = <<>>
    /\ conflicting_urls = {}
    /\ consolidated_new_repos = <<>> /\ consolidated_removed_repos = <<>>
    /\ payloads = <<>>
    /\ exc = None
    /\ env = None
    /\ exit_status = 0
    /\ output_file = None
    /\ github_output = <<>>
    /\ UnitIdle
    /\ RunsIdle
    /\ WorkerIdle

\* detect_changes of src/detect_repo_changes.py, from the same two files
DetectChangesRoot ==
    /\ root_run = None
    /\ root_run' = Some(detect_changes_root(old_content, new_content))
    /\ UNCHANGED <<first_run, main_vars, unit_vars, worker_vars>>

NextVersions ==
    \/ Fetch
    \/ Parse
    \/ FindEntries
    \/ DetectActionConflicts
    \/ Consolidate
    \/ EnforceLimits
    \/ BuildPayloads
    \/ DetectChangesRoot

SpecVersions == InitVersions /\ [][NextVersions]_vars

(***************************************************************************)
(* The enrichment worker, entry.py.  Values of JSON and of Python:         *)
(*   a key of a dict is Absent, Null (None) or holds a Value;              *)
(*   a string read as a url is what urlparse makes of it: its hostname     *)
(*   (None when it has no "//host" part) and its path split at "/";        *)
(*   a body is what .json() makes of it: a value or an exception.          *)
(***************************************************************************)
Absent == [present |-> FALSE, value |-> None]
Null == [present |-> TRUE, value |-> None]
Value(v) == [present |-> TRUE, value |-> Some(v)]

\* d.get(key, default), with d.get(key) being d.get(key, None)
get(field, default) == IF field.present THEN field.value ELSE default

\* bool(s) of an Optional[str]
TruthyStr(opt) == opt # None /\ opt[1] # ""

Str(hostname, path) ==
    [type |-> "str", falsy |-> FALSE, hostname |-> hostname, path |-> path]
EmptyStr == [type |-> "str", falsy |-> TRUE, hostname |-> None, path |-> <<"">>]
\* a number other than 0 where a string is expected
NotAStr == [type |-> "int", falsy |-> FALSE, hostname |-> None, path |-> <<>>]

Json(v) == [error |-> None, value |-> Some(v)]
NotJson(type) == [error |-> Some(type), value |-> None]

\* the JSON of a request body: an object, or an array
RequestData(github_url) == [type |-> "dict", github_url |-> github_url]
NotADict == [type |-> "list", github_url |-> Absent]

Request(method, body) == [method |-> method, body |-> body]

JsonHeaders == {<<"Content-Type", "application/json">>}
CorsHeaders ==
    JsonHeaders \cup {<<"Access-Control-Allow-Origin", "*">>,
                      <<"Access-Control-Allow-Methods", "POST, OPTIONS">>,
                      <<"Access-Control-Allow-Headers", "Content-Type">>}

\* Response(json.dumps(body), status=status, headers=headers)
Response(body, status, headers) ==
    [status |-> status, body |-> body, headers |-> headers]

\* Response(json.dumps({"error": message}), status, Content-Type)
ErrorResponse(message, status) ==
    Response([error |-> Some(message), data |-> None], status, JsonHeaders)

parse_github_url_any_host(url) ==
    IF url.type # "str" THEN <<None, None>>
    ELSE LET path_parts == SelectSeq(url.path, LAMBDA part : part # "")
         IN  IF Len(path_parts) >= 2
             THEN <<Some(path_parts[1]), Some(path_parts[2])>>
             ELSE <<None, None>>

\* parse_github_url: urlparse raises on a value that is no string
parse_github_url(url) ==
    IF url.type # "str" THEN <<None, None>>
    ELSE IF url.hostname # Some("github.com") THEN <<None, None>>
    ELSE LET path_parts == SelectSeq(url.path, LAMBDA part : part # "")
         IN  IF Len(path_parts) >= 2
             THEN <<Some(path_parts[1]), Some(path_parts[2])>>
             ELSE <<None, None>>

\* on_fetch up to the parsed url: the Response of the first check that
\* fails, None when the request passes them all
request_checks(req) ==
    IF req.method # "POST"
    THEN Some(ErrorResponse("Method not allowed. Use POST.", 405))
    ELSE IF req.body.error # None
    THEN Some(ErrorResponse("Invalid JSON in request body", 400))
    ELSE LET request_data == req.body.value[1]
             github_url == get(request_data.github_url, None)
             parsed == parse_github_url(github_url[1])
         IN  IF request_data.type # "dict"
             THEN Some(ErrorResponse("Request body must be a JSON object", 400))
             ELSE IF github_url = None \/ github_url[1].falsy
             THEN Some(ErrorResponse("Missing 'github_url' field in request body", 400))
             ELSE IF ~TruthyStr(parsed[1]) \/ ~TruthyStr(parsed[2])
             THEN Some(ErrorResponse(
                     "Invalid GitHub URL format. Expected: https://github.com/owner/repo",
                     400))
             ELSE None

\* the env binding of the worker: what getattr(env, name, None) and
\* env[name] give, and what env.get(name) gives if env has a 'get'
EnvBinding(attr, item, env_get) == [attr |-> attr, item |-> item, get |-> env_get]

\* env (None when falsy) and os.environ.get("GITHUB_PAT_PUBLIC")
WorkerEnv(binding, environ) == [env |-> binding, environ |-> environ]

\* the three ways to read the token from env, then os.environ; an exception
\* of env[name] other than KeyError and TypeError reaches the outer except
lookup_token(we) ==
    LET binding == we.env
        item == binding[1].item
        by_attr == IF binding # None /\ binding[1].attr.exc = None
                   THEN binding[1].attr.value ELSE None
        item_raises == /\ binding # None /\ ~TruthyStr(by_attr)
                       /\ item.exc # None
                       /\ item.exc[1].type \notin {"KeyError", "TypeError"}
        by_item == IF binding # None /\ ~TruthyStr(by_attr) /\ item.exc = None
                   THEN item.value ELSE by_attr
        by_get == IF /\ binding # None /\ ~TruthyStr(by_item)
                      /\ binding[1].get # None /\ binding[1].get[1].exc = None
                   THEN binding[1].get[1].value ELSE by_item
    IN  IF item_raises THEN Raised(item.exc[1].type, item.exc[1].message)
        ELSE Returned(IF TruthyStr(by_get) THEN by_get ELSE we.environ)

(***************************************************************************)
(* fetch_github_repo_data.  api.github.com answers a request with a status *)
(* and a body, or not at all (fetch raises).                               *)
(***************************************************************************)
Reply(status, text, body) ==
    [raised |-> FALSE, status |-> status, text |-> text, body |-> body]
NoReply ==
    [raised |-> TRUE, status |-> 0, text |-> "", body |-> NotJson("JsException")]

\* response.ok
ok(reply) == reply.status >= 200 /\ reply.status <= 299

\* fetch(url, headers={..., "Authorization": f"Bearer {token}"}, method="GET")
Call(url, token) ==
    [url |-> url, authorization |-> "Bearer " \o token, method |-> "GET"]

repo_url(owner, repo) == "https://api.github.com/repos/" \o owner \o "/" \o repo
commits_url(owner, repo) == repo_url(owner, repo) \o "/commits?per_page=1"

\* the JSON of a repository: an object with the keys read below, or an array
RepoData(full_name, stars, owner, license) ==
    [type |-> "dict", full_name |-> full_name, stars |-> stars,
     owner |-> owner, license |-> license]
NotRepoData ==
    [type |-> "list", full_name |-> Absent, stars |-> Absent,
     owner |-> Absent, license |-> Absent]
Owner(login) == [login |-> login]
License(name) == [name |-> name]

\* the first try block: repo_data, or the ValueError or IOError it raises
repo_outcome(owner, repo, reply) ==
    IF reply.raised
    THEN Raised("IOError", "Failed to fetch repository data: fetch failed")
    ELSE IF reply.status = 404
    THEN Raised("ValueError", "Repository " \o owner \o "/" \o repo \o " not found")
    ELSE IF reply.status = 403
    THEN Raised("IOError", "GitHub API access forbidden: " \o reply.text)
    ELSE IF ~ok(reply)
    THEN Raised("IOError", "GitHub API error " \o ToString(reply.status)
                               \o ": " \o reply.text)
    ELSE IF reply.body.error = None
    THEN Returned(reply.body.value[1])
    ELSE IF reply.body.error[1] = "ValueError"
    THEN Raised("ValueError", "Expecting value")
    ELSE Raised("IOError", "Failed to fetch repository data: Expecting value")

\* the JSON of the commit list: an array of commits, or an object
Commits(items) == [type |-> "list", items |-> items]
NotCommits == [type |-> "dict", items |-> <<>>]
Commit(sha, commit, html_url) ==
    [sha |-> sha, commit |-> commit, html_url |-> html_url]
\* message is the message split at "\n"
CommitInfo(message, author) == [message |-> message, author |-> author]
Author(name, date) == [name |-> name, date |-> date]

\* the second try block: latest_commit, None after any failure
latest_commit_of(reply) ==
    IF reply.raised \/ ~ok(reply) \/ reply.body.error # None THEN None
    ELSE LET commits_data == reply.body.value[1]
             commit == commits_data.items[1]
             commit_info == get(commit.commit, Some(CommitInfo(Absent, Absent)))
             author_info == get(commit_info[1].author, Some(Author(Absent, Absent)))
             message == get(commit_info[1].message, Some(<<"">>))
         IN  IF commits_data.type # "list" \/ commits_data.items = <<>> THEN None
             ELSE IF commit_info = None \/ message = None \/ author_info = None
             THEN None
             ELSE Some([sha |-> get(commit.sha, None),
                        message |-> message[1][1],
                        author |-> get(author_info[1].name, None),
                        date |-> get(author_info[1].date, None),
                        url |-> get(commit.html_url, None)])

enriched_data_requires_commit(data, latest_commit) ==
    IF latest_commit = None
    THEN Raised("IOError", "Failed to fetch commit data")
    ELSE Returned([full_name |-> get(data.full_name, None),
                   stars |-> get(data.stars, Some(0)),
                   license |-> None,
                   owner |-> [login |-> None],
                   latest_commit |-> latest_commit])

\* enriched_data, of which full_name stands for the keys read with .get(key)
\* and stars for those read with .get(key, default)
enriched_data(data, latest_commit) ==
    LET owner_info == get(data.owner, Some(Owner(Absent)))
        license_info == get(data.license, Some(License(Absent)))
    IN  IF data.type # "dict"
        THEN Raised("AttributeError", "'list' object has no attribute 'get'")
        ELSE IF owner_info = None
        THEN Raised("AttributeError", "'NoneType' object has no attribute 'get'")
        ELSE Returned([full_name |-> get(data.full_name, None),
                       stars |-> get(data.stars, Some(0)),
                       license |-> IF license_info # None
                                   THEN get(license_info[1].name, None) ELSE None,
                       owner |-> [login |-> get(owner_info[1].login, None)],
                       latest_commit |-> latest_commit])

error_status_bad_gateway(type) == 502

\* except ValueError: 404, except IOError: 502
error_status(type) == IF type = "ValueError" THEN 404 ELSE 502

(***************************************************************************)
(* SpecWorker: the requests, environments and upstream answers on_fetch    *)
(* is run on.                                                              *)
(***************************************************************************)
GithubUrls ==
    { Str(Some("github.com"), <<"", "owner", "repo">>),
      Str(Some("github.com"), <<"", "", "org", "", "tool", "issues">>),
      Str(Some("github.com"), <<"", "owner">>),
      Str(Some("github.com"), <<"", "owner", "">>),
      Str(Some("github.com"), <<"">>),
      Str(Some("gitlab.com"), <<"", "owner", "repo">>),
      Str(Some("www.github.com"), <<"", "owner", "repo">>),
      Str(None, <<"github.com", "owner", "repo">>) }

Bodies ==
    {NotJson("JsException"), Json(NotADict)}
        \cup {Json(RequestData(github_url)) :
                 github_url \in {Absent, Null, Value(EmptyStr), Value(NotAStr)}
                                    \cup {Value(url) : url \in GithubUrls}}

Requests == {Request(method, body) : method \in {"POST", "GET"}, body \in Bodies}

WorkerEnvs ==
    LET attrs == {Returned(None), Returned(Some("pat-attr"))}
        items == {Raised("KeyError", "'GITHUB_PAT_PUBLIC'"),
                  Raised("JsException", "binding unavailable"),
                  Returned(Some("pat-item"))}
        gets == {None, Some(Returned(None)), Some(Returned(Some("pat-get")))}
        environs == {None, Some(""), Some("pat-environ")}
    IN  {WorkerEnv(None, environ) : environ \in environs}
            \cup {WorkerEnv(Some(EnvBinding(attr, item, env_get)), environ) :
                     attr \in attrs, item \in items, env_get \in gets,
                     environ \in environs}

ErrorReply(status, text) == Reply(status, text, NotJson("JsException"))

RepoReplies ==
    { Reply(200, "", Json(RepoData(Value("owner/repo"), Value(5),
                                   Value(Owner(Value("owner"))),
                                   Value(License(Value("MIT")))))),
      Reply(200, "", Json(RepoData(Absent, Absent, Absent, Absent))),
      Reply(200, "", Json(RepoData(Value("owner/repo"), Null, Null, Null))),
      Reply(200, "", Json(NotRepoData)),
      Reply(200, "", NotJson("ValueError")),
      Reply(200, "", NotJson("JsException")),
      ErrorReply(404, "Not Found"),
      ErrorReply(403, "rate limit exceeded"),
      ErrorReply(401, "Bad credentials"),
      ErrorReply(500, "Server Error"),
      NoReply }

CommitsReplies ==
    { Reply(200, "", Json(Commits(<<
          Commit(Value("abc123"),
                 Value(CommitInfo(Value(<<"fix parser", "", "details">>),
                                  Value(Author(Value("dev"), Value("2024-01-01"))))),
                 Value("https://github.com/owner/repo/commit/abc123"))>>))),
      Reply(200, "", Json(Commits(<<Commit(Value("abc123"), Absent, Absent)>>))),
      Reply(200, "", Json(Commits(<<
          Commit(Value("abc123"), Value(CommitInfo(Null, Null)), Null)>>))),
      Reply(200, "", Json(Commits(<<>>))),
      Reply(200, "", Json(NotCommits)),
      Reply(200, "", NotJson("ValueError")),
      ErrorReply(409, "Git Repository is empty."),
      NoReply }

InitWorker ==
    /\ request \in {Some(req) : req \in Requests}
    /\ worker_env \in {Some(we) : we \in WorkerEnvs}
    /\ wpc = "on_fetch"
    /\ owner_repo = <<None, None>> /\ github_token = None
    /\ calls = <<>> /\ replies = <<>> /\ repo_data = None
    /\ response = None /\ previous = None
    /\ MainIdle
    /\ UnitIdle
    /\ RunsIdle

(***************************************************************************)
(* on_fetch, one action per stretch of code between two awaits of          *)
(* api.github.com.                                                         *)
(***************************************************************************)
\* from the method check to the call of fetch_github_repo_data
OnFetch ==
    /\ wpc = "on_fetch"
    /\ LET rejected == request_checks(request[1])
           github_url == get(request[1].body.value[1].github_url, None)
           found == lookup_token(worker_env[1])
       IN  IF rejected # None
           THEN /\ response' = rejected
                /\ wpc' = "done"
                /\ UNCHANGED <<owner_repo, github_token>>
           ELSE /\ owner_repo' = parse_github_url(github_url[1])
                /\ IF found.exc # None
                   THEN /\ response' = Some(ErrorResponse(
                               "Failed to access environment variables", 500))
                        /\ wpc' = "done"
                        /\ UNCHANGED github_token
                   ELSE /\ github_token' = found.value
                        /\ IF ~TruthyStr(found.value)
                           THEN /\ response' = Some(ErrorResponse(
                                       "GITHUB_PAT_PUBLIC environment variable not configured",
                                       500))
                                /\ wpc' = "done"
                           ELSE /\ wpc' = "fetch_repo"
                                /\ UNCHANGED response
    /\ UNCHANGED <<request, worker_env, calls, replies, repo_data, previous,
                   unit_vars, main_vars, runs_vars>>

\* the request for the repository, and the answer to the caller when it fails
FetchRepoData ==
    /\ wpc = "fetch_repo"
    /\ \E reply \in RepoReplies :
          LET owner == owner_repo[1][1]
              repo == owner_repo[2][1]
              outcome == repo_outcome(owner, repo, reply)
          IN  /\ calls' = Append(calls, Call(repo_url(owner, repo), github_token[1]))
              /\ replies' = Append(replies, reply)
              /\ IF outcome.exc # None
                 THEN /\ response' = Some(ErrorResponse(
                             outcome.exc[1].message, error_status(outcome.exc[1].type)))
                      /\ wpc' = "done"
                      /\ UNCHANGED repo_data
                 ELSE /\ repo_data' = Some(outcome.value)
                      /\ wpc' = "fetch_commits"
                      /\ UNCHANGED response
    /\ UNCHANGED <<request, worker_env, owner_repo, github_token, previous,
                   unit_vars, main_vars, runs_vars>>

\* the request for the latest commit, enriched_data and the answer
FetchLatestCommit ==
    /\ wpc = "fetch_commits"
    /\ \E reply \in CommitsReplies :
          LET owner == owner_repo[1][1]
              repo == owner_repo[2][1]
              enriched == enriched_data(repo_data[1], latest_commit_of(reply))
          IN  /\ calls' = Append(calls, Call(commits_url(owner, repo), github_token[1]))
              /\ replies' = Append(replies, reply)
              /\ response' =
                    IF enriched.exc # None
                    THEN Some(ErrorResponse(
                            "Internal server error: " \o enriched.exc[1].message, 500))
                    ELSE Some(Response([error |-> None, data |-> Some(enriched.value)],
                                       200, CorsHeaders))
    /\ wpc' = "done"
    /\ UNCHANGED <<request, worker_env, owner_repo, github_token, repo_data,
                   previous, unit_vars, main_vars, runs_vars>>

\* a request with what was sent upstream for it and how it was answered
Exchange ==
    [request |-> request[1], replies |-> replies, status |-> response[1].status]

\* the worker, deployed with the same env, is invoked on the next request
NextRequest ==
    /\ wpc = "done" /\ previous = None
    /\ previous' = Some(Exchange)
    /\ request' \in {Some(req) : req \in Requests}
    /\ wpc' = "on_fetch"
    /\ owner_repo' = <<None, None>> /\ github_token' = None
    /\ calls' = <<>> /\ replies' = <<>> /\ repo_data' = None
    /\ response' = None
    /\ UNCHANGED <<worker_env, unit_vars, main_vars, runs_vars>>

NextWorker ==
    \/ OnFetch
    \/ FetchRepoData
    \/ FetchLatestCommit
    \/ NextRequest

SpecWorker == InitWorker /\ [][NextWorker]_vars

(***************************************************************************)
(* What the claims speak of, stated on positions and counts rather than    *)
(* with the operators above.                                               *)
(***************************************************************************)
Urls(s) == {s[i].repo_url : i \in DOMAIN s}
Count(s, u) == Cardinality({i \in DOMAIN s : s[i].repo_url = u})

\* r is s restricted to the positions Kept, order kept
IsRestriction(r, s, Kept) ==
    /\ Len(r) = Cardinality(Kept)
    /\ \A i \in Kept : r[Cardinality({j \in Kept : j <= i})] = s[i]

\* position of the first occurrence of x in s
FirstAt(s, x) == CHOOSE i \in DOMAIN s : s[i] = x /\ \A j \in 1..(i - 1) : s[j] # x

\* r lists every element of s once, ordered by first occurrence in s
IsFirstOccurrenceList(r, s) ==
    /\ Range(r) = Range(s)
    /\ \A i, j \in DOMAIN r : i < j => FirstAt(s, r[i]) < FirstAt(s, r[j])

\* positions of a that carry url u
Positions(s, u) == {i \in DOMAIN s : s[i].repo_url = u}

(***************************************************************************)
(* C1..C7, C9: the methods called directly (SpecUnit)                      *)
(***************************************************************************)
\* C1: find_new_entries(old, new) is new restricted to the entries whose
\* repo_url occurs in no entry of old: new's order, every duplicate kept (a
\* url k times in new and absent from old gives k entries, a url of old none).
C1_FindNewEntries ==
    called = "find_new_entries" =>
        /\ IsRestriction(ret, b, {i \in DOMAIN b : b[i].repo_url \notin Urls(a)})
        /\ \A u \in Urls(a) \cup Urls(b) :
              Count(ret, u) = IF u \in Urls(a) THEN 0 ELSE Count(b, u)

\* a url twice in new and absent from old is added twice, around a dropped entry
C1_Witness ==
    /\ called = "find_new_entries"
    /\ Len(b) = 3 /\ Len(ret) = 2
    /\ ret[1].repo_url = ret[2].repo_url /\ ret[1] # ret[2]
    /\ b[2].repo_url \in Urls(a)

\* C2: find_removed_entries(old, new) is old restricted to the entries whose
\* repo_url occurs in no entry of new: old's order, duplicates within old kept.
C2_FindRemovedEntries ==
    called = "find_removed_entries" =>
        /\ IsRestriction(ret, a, {i \in DOMAIN a : a[i].repo_url \notin Urls(b)})
        /\ \A u \in Urls(a) \cup Urls(b) :
              Count(ret, u) = IF u \in Urls(b) THEN 0 ELSE Count(a, u)

C2_Witness ==
    /\ called = "find_removed_entries"
    /\ Len(a) = 3 /\ Len(ret) = 2
    /\ ret[1].repo_url = ret[2].repo_url /\ ret[1] # ret[2]
    /\ a[2].repo_url \in Urls(b)

\* C3: detect_action_conflicts(added, removed): a url that occurs in both
\* arguments occurs in neither returned list; the entries whose url occurs in
\* one argument only are returned in their own list, unchanged, in order.
C3_ConflictsDropped ==
    called = "detect_action_conflicts" =>
        /\ \A u \in Urls(a) \cap Urls(b) : u \notin Urls(ret[1]) \cup Urls(ret[2])
        /\ IsRestriction(ret[1], a, {i \in DOMAIN a : a[i].repo_url \notin Urls(b)})
        /\ IsRestriction(ret[2], b, {i \in DOMAIN b : b[i].repo_url \notin Urls(a)})

\* the shape of test_conflict_detection: one conflicting url, one survivor
\* on each side
C3_Witness ==
    /\ called = "detect_action_conflicts"
    /\ Urls(a) \cap Urls(b) # {}
    /\ Len(ret[1]) = 1 /\ Len(a) > 1
    /\ Len(ret[2]) = 1 /\ Len(b) > 1

\* C4: consolidate_entries_by_url returns one entry per distinct repo_url of
\* its argument (same urls, none twice), ordered by first occurrence.
C4_OnePerUrl ==
    called = "consolidate_entries_by_url" =>
        /\ Urls(ret) = Urls(a)
        /\ \A u \in Urls(ret) : Count(ret, u) = 1
        /\ IsFirstOccurrenceList([i \in DOMAIN ret |-> ret[i].repo_url],
                                 [i \in DOMAIN a |-> a[i].repo_url])

\* two urls, interleaved, each more than once
C4_Witness ==
    /\ called = "consolidate_entries_by_url"
    /\ Len(a) = 4 /\ Len(ret) = 2
    /\ a[1].repo_url = a[3].repo_url /\ a[2].repo_url = a[4].repo_url
    /\ ret[1].repo_url = a[1].repo_url /\ ret[2].repo_url = a[2].repo_url

\* the non-empty contributor names of the positions P of s, each once, in
\* order of first occurrence
IsContributorList(names, s, P) ==
    LET named == {i \in P : s[i].contributor_name # ""}
        first == {i \in named :
                     \A j \in named : j < i => s[j].contributor_name # s[i].contributor_name}
    IN  /\ Len(names) = Cardinality(first)
        /\ \A i \in first : names[Cardinality({j \in first : j <= i})] = s[i].contributor_name

\* names written out with ", " between them
RECURSIVE CommaSeparated(_)
CommaSeparated(names) ==
    IF names = <<>> THEN ""
    ELSE IF Len(names) = 1 THEN names[1]
    ELSE CommaSeparated(SubSeq(names, 1, Len(names) - 1)) \o ", " \o names[Len(names)]

\* C5: for a group of two or more entries of one url the merged
\* contributor_name is the group's non-empty contributor names, in order of
\* first occurrence, exact duplicates removed, joined with ", "; it is "" when
\* every contributor of the group is empty.
C5_MergedContributors ==
    called = "consolidate_entries_by_url" =>
        \A k \in DOMAIN ret :
            LET P == Positions(a, ret[k].repo_url)
                given == {a[i].contributor_name : i \in P} \ {""}
            IN  Cardinality(P) >= 2 =>
                /\ \E names \in SeqsUpTo(given, Cardinality(given)) :
                      /\ IsContributorList(names, a, P)
                      /\ ret[k].contributor_name = CommaSeparated(names)
                /\ (\A i \in P : a[i].contributor_name = "")
                       => ret[k].contributor_name = ""

\* the spec's example: contributors a, "", b, a of one url give "a, b"
C5_Witness ==
    /\ called = "consolidate_entries_by_url"
    /\ [i \in DOMAIN a |-> a[i].contributor_name] = <<"a", "", "b", "a">>
    /\ Cardinality(Urls(a)) = 1
    /\ ret[1].contributor_name = "a, b"

\* the tags of the positions P of s, flattened in order
RECURSIVE TagsAt(_, _)
TagsAt(s, P) ==
    IF P = {} THEN <<>>
    ELSE LET i == CHOOSE m \in P : \A n \in P : m >= n
         IN  TagsAt(s, P \ {i}) \o (IF s[i].tags = None THEN <<>> ELSE s[i].tags[1])

\* C6: for a group of two or more entries of one url the merged tags are the
\* union of the tags of the group's entries, without duplicates, in order of
\* first occurrence; they are None when no entry of the group has a tag.
C6_MergedTags ==
    called = "consolidate_entries_by_url" =>
        \A k \in DOMAIN ret :
            LET P == Positions(a, ret[k].repo_url)
                all == TagsAt(a, P)
            IN  Cardinality(P) >= 2 =>
                IF all = <<>> THEN ret[k].tags = None
                ELSE /\ ret[k].tags # None
                     /\ IsFirstOccurrenceList(ret[k].tags[1], all)
                     /\ Cardinality(Range(ret[k].tags[1])) = Len(ret[k].tags[1])

\* the spec's example: tags x,y and y,z under one url give x,y,z
C6_Witness ==
    /\ called = "consolidate_entries_by_url"
    /\ Len(a) = 2 /\ Len(ret) = 1
    /\ a[1].tags = Some(<<"x", "y">>) /\ a[2].tags = Some(<<"y", "z">>)
    /\ ret[1].tags = Some(<<"x", "y", "z">>)

\* a group in which no entry has a tag (None and [] alike) merges to None
C6_WitnessNoTags ==
    /\ called = "consolidate_entries_by_url"
    /\ Len(a) = 2 /\ Len(ret) = 1
    /\ a[1].tags = None /\ a[2].tags = Some(<<>>)
    /\ ret[1].tags = None

\* C7: consolidation is idempotent: consolidating the result of a
\* consolidation returns it unchanged (entries, order, contributors, tags).
C7_Idempotent ==
    [][called = "consolidate_entries_by_url"
          /\ called' = "consolidate_entries_by_url twice" => ret' = ret]_vars

\* a second pass over a result that the first pass had to merge
C7_Witness ==
    /\ called = "consolidate_entries_by_url twice"
    /\ Len(ret) = 2 /\ Len(a) = 4
    /\ ret[1].contributor_name = "a, b"

\* C9: when old and new share no repo_url, find_new_entries returns all of
\* new and find_removed_entries returns all of old, in source order.
C9_Disjoint ==
    Urls(a) \cap Urls(b) = {} =>
        /\ called = "find_new_entries" => ret = b
        /\ called = "find_removed_entries" => ret = a

C9_Witness ==
    /\ Urls(a) \cap Urls(b) = {}
    /\ called = "find_removed_entries"
    /\ Len(a) = 3 /\ Len(b) = 2 /\ ret = a
    /\ Cardinality(Urls(a)) = 2

(***************************************************************************)
(* C8, C10: main -> detect_changes (Spec)                                  *)
(***************************************************************************)
\* consolidated add records plus consolidated remove records
TotalChanges == Len(consolidated_new_repos) + Len(consolidated_removed_repos)

\* C8: with enforce_limits and more than 15 consolidated add plus remove
\* records, detect_changes raises the limit error, which carries the count
\* and the threshold 15, and returns no change record; main exits with
\* status 1 and writes neither the output file nor a line of GITHUB_OUTPUT.
C8_LimitExceeded ==
    (enforce_limits /\ TotalChanges > 15) =>
        /\ pc \in {"limits", "raised", "exited"}
        /\ pc # "limits" =>
              /\ exc # None
              /\ exc[1].type = "ValueError"
              /\ exc[1].message = "Exceeded maximum change limit: "
                                      \o ToString(TotalChanges) \o " > "
                                      \o ToString(15)
              /\ payloads = <<>>
        /\ pc = "exited" =>
              /\ exit_status = 1
              /\ output_file = None
              /\ github_output = <<>>

\* 16 consolidated changes (some added, some removed) under a run that was
\* given --output-file and GITHUB_ACTIONS
C8_Witness ==
    /\ pc = "exited"
    /\ enforce_limits
    /\ Len(consolidated_new_repos) = 9 /\ Len(consolidated_removed_repos) = 7
    /\ exc = Some([type |-> "ValueError",
                   message |-> "Exceeded maximum change limit: 16 > 15"])
    /\ env = Environment(TRUE, TRUE)
    /\ exit_status = 1

\* C10: when the parsed snapshots have the same set of repo_urls (tags,
\* contributors, order and duplicate counts may differ) find_new_entries and
\* find_removed_entries return [] and detect_changes returns [].
C10_SameUrls ==
    (pc \notin {"fetch", "parse", "diff"} /\ exc = None
        /\ Urls(old_entries) = Urls(new_entries)) =>
        /\ new_repos = <<>> /\ removed_repos = <<>>
        /\ pc \in {"returned", "exited"}
        /\ payloads = <<>>

\* same two urls, in the other order and with other metadata
C10_Witness ==
    /\ pc = "returned"
    /\ Len(old_entries) = 2 /\ Len(new_entries) = 2
    /\ old_entries[1].repo_url # old_entries[2].repo_url
    /\ old_entries[1].repo_url = new_entries[2].repo_url
    /\ old_entries[2].repo_url = new_entries[1].repo_url
    /\ old_entries[1] # new_entries[2]
    /\ new_repos = <<>> /\ removed_repos = <<>>
    /\ payloads = <<>>

\* one url, once in old and twice in new
C10_WitnessDuplicates ==
    /\ pc = "returned"
    /\ Len(old_entries) = 1 /\ Len(new_entries) = 2
    /\ Urls(old_entries) = Urls(new_entries)
    /\ payloads = <<>>


(***************************************************************************)
(* C11, C12: parse_yaml_content called directly (SpecUnit)                 *)
(***************************************************************************)
\* the tags a raw entry gives under one of its two fields
FieldTags(opt) == IF opt = None THEN {} ELSE Range(opt[1])

GivenTags(repo) == FieldTags(repo.tags) \cup FieldTags(repo.initial_tags)

IsDuplicateFree(s) == \A i, j \in DOMAIN s : s[i] = s[j] => i = j

Parsed == called = "parse_yaml_content"

\* one entry per raw entry, in source order, with its url and contributor
IsEntryPerRawEntry(entries, repos) ==
    /\ Len(entries) = Len(repos)
    /\ \A i \in DOMAIN repos :
           /\ entries[i].repo_url = repos[i].repo_url
           /\ entries[i].contributor_name = repos[i].contributor_name

\* tags is a duplicate-free list of exactly the tags in S
IsListOf(tags, S) ==
    tags # None /\ IsDuplicateFree(tags[1]) /\ Range(tags[1]) = S

\* C11 as stated: parse_yaml_content returns one RepoEntry per raw entry in
\* source order; tags is the duplicate-free union of 'tags' and
\* 'initial_tags', and None exactly when neither field is present, so that
\* an entry with an empty tag list differs from one with no tags.
C11_TagsNoneOnlyWhenAbsent ==
    (Parsed /\ yaml_content[1].yaml = "ok") =>
        LET repos == yaml_content[1].repos
        IN  /\ ret.exc = None
            /\ IsEntryPerRawEntry(ret.value, repos)
            /\ \A i \in DOMAIN repos :
                   IF repos[i].tags = None /\ repos[i].initial_tags = None
                   THEN ret.value[i].tags = None
                   ELSE IsListOf(ret.value[i].tags, GivenTags(repos[i]))

\* C11, amended: parse_yaml_content returns one RepoEntry per raw entry in
\* source order; tags is the duplicate-free union of 'tags' and
\* 'initial_tags' when that union has a tag, and None whenever it has none:
\* fields that are absent and fields that are empty lists parse alike.
C11_TagsNoneWhenNoTag ==
    (Parsed /\ yaml_content[1].yaml = "ok") =>
        LET repos == yaml_content[1].repos
        IN  /\ ret.exc = None
            /\ IsEntryPerRawEntry(ret.value, repos)
            /\ \A i \in DOMAIN repos :
                   IF GivenTags(repos[i]) = {}
                   THEN ret.value[i].tags = None
                   ELSE IsListOf(ret.value[i].tags, GivenTags(repos[i]))

\* an entry whose 'tags' is an empty list parsed to None, next to an entry
\* whose two fields were merged
C11_Witness ==
    /\ Parsed /\ yaml_content[1].yaml = "ok"
    /\ LET repos == yaml_content[1].repos
       IN  /\ \E i \in DOMAIN repos :
                  /\ repos[i].tags = Some(<<>>)
                  /\ ret.value[i].tags = None
           /\ \E j \in DOMAIN repos :
                  /\ FieldTags(repos[j].tags) # {}
                  /\ FieldTags(repos[j].initial_tags) \ FieldTags(repos[j].tags) # {}
                  /\ Len(ret.value[j].tags[1]) = 2

\* C12 as stated: for every text that does not parse to the expected
\* structure (invalid YAML, an empty document, a top-level value that is no
\* mapping, a 'repos' that is no list of mappings) parse_yaml_content
\* returns the empty list instead of raising.
C12_MalformedReturnsEmpty ==
    (Parsed /\ yaml_content[1].yaml \in Malformed) => ret = Returned(<<>>)


(***************************************************************************)
(* C13, C14: the result of detect_changes (Spec)                           *)
(***************************************************************************)
\* detect_changes has returned, or main has gone on from its return
HasReturned == pc = "returned" \/ (pc = "exited" /\ exc = None)

\* the keys of a record of the payload: 'tags' is a key when it has a value
Keys(payload) ==
    {"repo_url", "contributor_name", "action"}
        \cup (IF payload.tags # None THEN {"tags"} ELSE {})

HasTag(entry) == entry.tags # None /\ Len(entry.tags[1]) >= 1

\* C13: every change record is flat with the keys repo_url, contributor_name
\* and action (add or remove), plus tags exactly when the consolidated entry
\* has at least one tag; all add records come before all remove records,
\* each block in the order of its consolidation.
C13_FlatRecords ==
    HasReturned =>
        LET n == Len(consolidated_new_repos)
            entry(i) == IF i <= n THEN consolidated_new_repos[i]
                        ELSE consolidated_removed_repos[i - n]
        IN  /\ Len(payloads) = n + Len(consolidated_removed_repos)
            /\ \A i \in DOMAIN payloads :
                   /\ payloads[i].action = (IF i <= n THEN "add" ELSE "remove")
                   /\ payloads[i].repo_url = entry(i).repo_url
                   /\ payloads[i].contributor_name = entry(i).contributor_name
                   /\ ("tags" \in Keys(payloads[i])) <=> HasTag(entry(i))
                   /\ HasTag(entry(i)) => payloads[i].tags = entry(i).tags

\* an add record with tags before a remove record without
C13_Witness ==
    /\ pc = "returned" /\ Len(payloads) = 2
    /\ payloads[1].action = "add" /\ Keys(payloads[1]) =
           {"repo_url", "contributor_name", "action", "tags"}
    /\ payloads[2].action = "remove" /\ Keys(payloads[2]) =
           {"repo_url", "contributor_name", "action"}

FetchFailed == old_content = None \/ new_content = None

ParseFailed ==
    /\ ~FetchFailed
    /\ old_content[1].yaml # "ok" \/ new_content[1].yaml # "ok"

\* C14 as stated: a failure inside detect_changes (a snapshot that cannot be
\* fetched, a snapshot that cannot be parsed, the change limit exceeded) never
\* ends in the empty result that a run without changes returns.
C14_FailuresSurfaced ==
    (pc = "returned" /\ payloads = <<>>) => ~FetchFailed /\ ~ParseFailed


(***************************************************************************)
(* C16: two runs of detect_changes (SpecRuns)                              *)
(***************************************************************************)
\* C16 as stated: two independent runs on the same snapshot texts and the
\* same flag end alike: the same exception or the same records, with the
\* same tags in the same order.
C16_SameOutcome ==
    (first_run # None /\ pc \in {"returned", "raised"}) => Outcome = first_run[1]


(***************************************************************************)
(* C17, C18, C19: the stages of detect_changes (Spec)                      *)
(***************************************************************************)
\* the urls added plus the urls removed: one consolidated record each
ChangedUrls == Cardinality(Urls(new_repos)) + Cardinality(Urls(removed_repos))

LimitErrorRaised == exc # None /\ exc[1].type = "ValueError"

UrlsOf(records, action) ==
    {records[i].repo_url : i \in {j \in DOMAIN records : records[j].action = action}}

\* C17: the gate counts consolidated records, one per changed url, not raw
\* entries, and refuses only above 15: with enforce_limits and at most 15
\* of them (15 included), and without enforce_limits for any count,
\* detect_changes returns every consolidated record and never raises the
\* limit error.
C17_LimitGate ==
    (pc \in {"payloads", "returned", "raised", "exited"}) =>
        /\ LimitErrorRaised <=> (enforce_limits /\ ChangedUrls > 15)
        /\ HasReturned =>
              /\ Len(payloads) = ChangedUrls
              /\ UrlsOf(payloads, "add") = Urls(new_repos)
              /\ UrlsOf(payloads, "remove") = Urls(removed_repos)

\* 16 raw entries of 15 urls pass the gate under enforce_limits
C17_Witness ==
    /\ pc = "returned" /\ enforce_limits
    /\ Len(new_repos) + Len(removed_repos) = 16
    /\ Len(new_repos) > 0 /\ Len(removed_repos) > 0
    /\ Len(payloads) = 15

\* C18: within detect_changes the conflict stage never drops anything: the
\* urls of find_new_entries and of find_removed_entries are disjoint, so
\* detect_action_conflicts returns both lists unchanged and the set of
\* conflicting urls is empty.
C18_NothingDropped ==
    [][pc = "conflicts" =>
          /\ Urls(new_repos) \cap Urls(removed_repos) = {}
          /\ new_repos' = new_repos
          /\ removed_repos' = removed_repos
          /\ conflicting_urls' = {}]_vars

\* the conflict stage has run on entries to add and entries to remove
C18_Witness ==
    /\ pc = "consolidate"
    /\ new_repos # <<>> /\ removed_repos # <<>>
    /\ conflicting_urls = {}

\* the urls of a snapshot text
SnapshotUrls(content) ==
    IF content = None THEN {} ELSE Urls(content[1].repos)

\* C19: in the result of detect_changes every repo_url occurs in at most
\* one record; the url of an add record is in the new snapshot and not in
\* the old one, the url of a remove record in the old and not in the new.
C19_OneRecordPerUrl ==
    HasReturned =>
        /\ \A i, j \in DOMAIN payloads :
               payloads[i].repo_url = payloads[j].repo_url => i = j
        /\ UrlsOf(payloads, "add")
               \subseteq SnapshotUrls(new_content) \ SnapshotUrls(old_content)
        /\ UrlsOf(payloads, "remove")
               \subseteq SnapshotUrls(old_content) \ SnapshotUrls(new_content)

\* a url given twice in the new snapshot is added once, another is removed
C19_Witness ==
    /\ pc = "returned" /\ new_content # None
    /\ Len(new_content[1].repos) = 2
    /\ Cardinality(SnapshotUrls(new_content)) = 1
    /\ Len(payloads) = 2
    /\ payloads[1].action = "add" /\ payloads[2].action = "remove"


(***************************************************************************)
(* C15, C20: on_fetch (SpecWorker)                                         *)
(***************************************************************************)
IsPost(req) == req.method = "POST"
HasJson(req) == req.body.error = None
IsObject(req) == HasJson(req) /\ req.body.value[1].type = "dict"

\* the body is an object whose github_url is neither missing nor empty
HasUrl(req) ==
    /\ IsObject(req)
    /\ LET given == req.body.value[1].github_url
       IN  given.present /\ given.value # None /\ ~given.value[1].falsy

\* github_url is a string with host github.com and an owner and a repo
\* segment in its path
IsRepoUrl(req) ==
    /\ HasUrl(req)
    /\ LET url == req.body.value[1].github_url.value[1]
       IN  /\ url.type = "str"
           /\ url.hostname = Some("github.com")
           /\ Cardinality({i \in DOMAIN url.path : url.path[i] # ""}) >= 2

\* the non-empty values GITHUB_PAT_PUBLIC has in the binding or in os.environ
ConfiguredTokens(we) ==
    LET binding == we.env
        given == {we.environ}
                    \cup (IF binding = None THEN {}
                          ELSE {binding[1].attr.value, binding[1].item.value}
                                  \cup (IF binding[1].get = None THEN {}
                                        ELSE {binding[1].get[1].value}))
    IN  {t[1] : t \in {g \in given : g # None /\ g[1] # ""}}

ChecksPassed ==
    /\ IsPost(request[1]) /\ IsRepoUrl(request[1])
    /\ ConfiguredTokens(worker_env[1]) # {}

\* the status and the error of the first check that fails, in the order
\* method, JSON, object, github_url, url format, token
FirstFailure(req) ==
    IF ~IsPost(req) THEN <<405, "Method not allowed. Use POST.">>
    ELSE IF ~HasJson(req) THEN <<400, "Invalid JSON in request body">>
    ELSE IF ~IsObject(req) THEN <<400, "Request body must be a JSON object">>
    ELSE IF ~HasUrl(req) THEN <<400, "Missing 'github_url' field in request body">>
    ELSE IF ~IsRepoUrl(req)
    THEN <<400, "Invalid GitHub URL format. Expected: https://github.com/owner/repo">>
    ELSE <<500, "GITHUB_PAT_PUBLIC environment variable not configured">>

\* C20: on_fetch sends nothing to GitHub unless the request passed, in this
\* order, the checks of the method (else 405), of the body being JSON (400),
\* an object (400), with a non-empty github_url (400) that names a
\* github.com owner and repo (400), and of GITHUB_PAT_PUBLIC being
\* configured (500); a rejected request is answered without upstream call.
C20_ChecksBeforeUpstream ==
    request # None =>
        /\ calls # <<>> =>
              /\ ChecksPassed
              /\ \A i \in DOMAIN calls :
                    \E t \in ConfiguredTokens(worker_env[1]) :
                        calls[i].authorization = "Bearer " \o t
        /\ (response # None /\ ~ChecksPassed) =>
              /\ calls = <<>>
              /\ response[1].status = FirstFailure(request[1])[1]
              /\ \/ response[1].body.error = Some(FirstFailure(request[1])[2])
                 \/ /\ response[1].status = 500
                    /\ response[1].body.error =
                           Some("Failed to access environment variables")
        /\ (response # None /\ calls = <<>>) => response[1].status \in {405, 400, 500}

\* a well-formed request for a repository is refused for want of a token
C20_Witness ==
    /\ response # None
    /\ IsPost(request[1]) /\ IsRepoUrl(request[1])
    /\ ConfiguredTokens(worker_env[1]) = {}
    /\ response[1].status = 500
    /\ calls = <<>>

\* a well-formed request with a token configured has reached GitHub
C20_WitnessCalled ==
    /\ response # None /\ ChecksPassed
    /\ Len(calls) = 2


\* the failure modes of an exchange: what GitHub answered to the request for
\* the repository, or what was wrong with the request
UpstreamStatus(x) ==
    IF x.replies # <<>> /\ ~x.replies[1].raised THEN x.replies[1].status ELSE 0

FailureMode(x) ==
    IF UpstreamStatus(x) = 404 THEN "not-found"
    ELSE IF UpstreamStatus(x) = 403 THEN "access-denied"
    ELSE IF x.replies # <<>> /\ ~x.replies[1].raised /\ ~ok(x.replies[1])
    THEN "upstream-error"
    ELSE IF IsPost(x.request) /\ ~IsRepoUrl(x.request) THEN "malformed-request"
    ELSE "none"

\* access-denied and upstream-error taken as one mode
FailureClass(x) ==
    IF FailureMode(x) \in {"access-denied", "upstream-error"}
    THEN "upstream-failure" ELSE FailureMode(x)

\* C15 as stated: not-found (upstream 404), access-denied (upstream 403),
\* generic upstream error (any other non-ok answer) and malformed-request
\* (invalid JSON, no object, github_url missing or invalid) are each answered
\* with a status that differs from those of the other three.
C15_FourStatuses ==
    (previous # None /\ response # None) =>
        LET x == previous[1]
            y == Exchange
        IN  (/\ FailureMode(x) # "none" /\ FailureMode(y) # "none"
             /\ FailureMode(x) # FailureMode(y)) => x.status # y.status

\* C15, amended: not-found is answered with 404, malformed-request with 400,
\* access-denied and generic upstream error both with 502: the statuses of
\* not-found, malformed-request and upstream failure differ from one
\* another, those of access-denied and generic upstream error do not.
C15_ThreeStatuses ==
    (previous # None /\ response # None) =>
        LET x == previous[1]
            y == Exchange
        IN  /\ (/\ FailureClass(x) # "none" /\ FailureClass(y) # "none"
                /\ FailureClass(x) # FailureClass(y)) => x.status # y.status
            /\ (FailureClass(x) = "upstream-failure"
                    /\ FailureClass(y) = "upstream-failure") => x.status = y.status
            /\ FailureMode(y) = "not-found" => y.status = 404
            /\ FailureMode(y) = "malformed-request" => y.status = 400
            /\ FailureClass(y) = "upstream-failure" => y.status = 502

\* an access-denied exchange followed by a generic upstream error
C15_Witness ==
    /\ previous # None /\ response # None
    /\ FailureMode(previous[1]) = "access-denied"
    /\ FailureMode(Exchange) = "upstream-error"
    /\ previous[1].status = response[1].status

\* a not-found exchange followed by a malformed request
C15_WitnessDistinct ==
    /\ previous # None /\ response # None
    /\ FailureMode(previous[1]) = "not-found"
    /\ FailureMode(Exchange) = "malformed-request"
    /\ previous[1].status # response[1].status

(***************************************************************************)
(* C21: the latest-commit lookup (SpecWorker)                              *)
(***************************************************************************)
\* the answer to the second call gives no commit: no answer, a non-ok
\* status, a body that is not JSON, not an array, or an empty array
CommitsFailed(reply) ==
    \/ reply.raised
    \/ ~ok(reply)
    \/ reply.body.error # None
    \/ /\ reply.body.error = None
       /\ \/ reply.body.value[1].type # "list"
          \/ reply.body.value[1].items = <<>>

\* both calls were made and answered, the first with an ok status and JSON
BothCallsAnswered == response # None /\ Len(replies) = 2

\* the first answer is a JSON object whose "owner" is not null
IsRepoObject(reply) ==
    /\ reply.body.error = None
    /\ reply.body.value[1].type = "dict"
    /\ reply.body.value[1].owner # Null

Pairs(records) ==
    [i \in DOMAIN records |-> <<records[i].repo_url, records[i].action>>]

\* no repo_url is repeated within the snapshot
NoUrlRepeated(content) ==
    content = None \/
        \A i, j \in DOMAIN content[1].repos :
            i # j => content[1].repos[i].repo_url # content[1].repos[j].repo_url

\* every tag key of the snapshot holds a list, or nothing
ListTags(content) ==
    content = None \/
        \A i \in DOMAIN content[1].repos :
            NotAList \notin {content[1].repos[i].tags, content[1].repos[i].initial_tags}

\* both versions have run on the snapshots
BothVersionsRan == root_run # None /\ pc \in {"returned", "raised"}

\* the versions end the same way: the same exception, or the same pairs
SameChanges ==
    /\ (pc = "raised") = (root_run[1].exc # None)
    /\ pc = "raised" => exc = root_run[1].exc
    /\ pc = "returned" => Pairs(payloads) = Pairs(root_run[1].value)

\* C22: on snapshots in which no repo_url is repeated, with enforce_limits
\* false, the workflow version and the root version of detect_changes end
\* with the same sequence of (repo_url, action) pairs.
C22_VersionsAgree ==
    (/\ BothVersionsRan
     /\ ~enforce_limits
     /\ NoUrlRepeated(old_content) /\ NoUrlRepeated(new_content)) => SameChanges

\* C22 on snapshots whose tag keys hold lists: there the versions agree
C22_AgreeOnListTags ==
    (/\ BothVersionsRan
     /\ ~enforce_limits
     /\ NoUrlRepeated(old_content) /\ NoUrlRepeated(new_content)
     /\ ListTags(old_content) /\ ListTags(new_content)) => SameChanges

\* an added and a removed url, reported alike by both versions
C22_Witness ==
    /\ BothVersionsRan /\ ~enforce_limits
    /\ NoUrlRepeated(old_content) /\ NoUrlRepeated(new_content)
    /\ pc = "returned" /\ Len(payloads) = 3
    /\ Pairs(payloads) = Pairs(root_run[1].value)
    /\ payloads[1].action = "add" /\ payloads[3].action = "remove"

====
